---- MODULE Spec2Model ----
(***************************************************************************)
(* Model of the container lifecycle manager of app.py: the in-memory       *)
(* registry project_containers, the Docker CLI helpers and the four HTTP   *)
(* handlers that use them.  The Docker daemon is the environment: every    *)
(* CLI invocation may fail, and containers may exit, be restarted by the   *)
(* restart policy or be removed between two requests.                      *)
(*                                                                         *)
(* Strings are sequences of chunks; a chunk is a piece of text without     *)
(* the character "=", and the chunk "=" is that character.  A Python dict  *)
(* is a sequence of <<key, value>> pairs with distinct keys, in insertion  *)
(* order.                                                                  *)
(***************************************************************************)
EXTENDS Integers, Sequences, FiniteSets, TLC

VARIABLES
    project_containers,  \* app.py:21, dict project_id -> container_id
    containers,          \* the runtime: container id -> container
    next_id,             \* the next container id the runtime hands out
    resp,                \* the response of the last request
    cmds,                \* the Docker commands the last request ran
    stopped,             \* the projects stopped with 200 and not created since
    threads              \* the requests the threaded server is serving

vars == <<project_containers, containers, next_id, resp, cmds, stopped, threads>>

----------------------------------------------------------------------------
(* Bounds *)

MaxHandles == 2
MaxEnvLen == 2

Projects == {"42", "7"}
Handles == 1..MaxHandles

----------------------------------------------------------------------------
(* Python dict *)

DictKeys(d) == {d[i][1] : i \in DOMAIN d}

DictHas(d, k) == k \in DictKeys(d)

DictIdx(d, k) == CHOOSE i \in DOMAIN d : d[i][1] = k

\* a lookup that returns the value of the first item whatever the key
DictGetFirst(d, k) == d[1][2]

DictGet(d, k) == d[DictIdx(d, k)][2]

\* a dict that appends without looking for the key
DictSetAppend(d, k, v) == Append(d, <<k, v>>)

DictSet(d, k, v) ==
    IF DictHas(d, k) THEN [d EXCEPT ![DictIdx(d, k)] = <<k, v>>]
    ELSE Append(d, <<k, v>>)

\* a delete that clears the dict
DictDelAll(d, k) == <<>>

\* a delete that removes nothing
DictDelNothing(d, k) == d

DictDel(d, k) == SelectSeq(d, LAMBDA it : it[1] # k)

DictValues(d) == {d[i][2] : i \in DOMAIN d}

----------------------------------------------------------------------------
(* Strings of the program *)

PROJECT_ID == <<"PROJECT_ID">>

Str(project_id) == <<project_id>>

NO_SUCH_CONTAINER == "No such container"
OTHER_ERROR == "Cannot connect to the Docker daemon"
NAME_CONFLICT == "Conflict. The container name is already in use"

\* f"{str(key)}={str(value)}"
EnvArg(key, value) == key \o <<"=">> \o value

\* a run command without --name: the runtime picks a name of its own
ContainerNameMissing(project_id) == <<>>

\* f"project-{project_id}"
ContainerName(project_id) == <<"project-", project_id>>

\* a docker run command line without the --name option
RunCmdNoName(project_id, environment) ==
    [name  |-> <<>>,
     env   |-> [i \in DOMAIN environment |->
                   EnvArg(environment[i][1], environment[i][2])],
     label |-> project_id]

\* the docker run command line, as far as the runtime's behaviour depends on it
RunCmd(project_id, environment) ==
    [name  |-> ContainerName(project_id),
     env   |-> [i \in DOMAIN environment |->
                   EnvArg(environment[i][1], environment[i][2])],
     label |-> project_id]

----------------------------------------------------------------------------
(* The Docker runtime *)

NoContainer == [exists |-> FALSE, name |-> <<>>, label |-> "", status |-> "absent"]

Entry(cmd, id, ok, out) ==
    [cmd |-> cmd, id |-> id, name |-> <<>>, env |-> <<>>, ok |-> ok, out |-> out]

RunEntry(run_cmd, id, ok, out) ==
    [cmd |-> "run", id |-> id, name |-> run_cmd.name, env |-> run_cmd.env,
     ok |-> ok, out |-> out]

\* docker info
DockerInfo == {Entry("info", 0, TRUE, ""), Entry("info", 0, FALSE, OTHER_ERROR)}

\* docker image inspect / docker pull
DockerImageInspect ==
    {Entry("image_inspect", 0, TRUE, ""), Entry("image_inspect", 0, FALSE, OTHER_ERROR)}

DockerPull == {Entry("pull", 0, TRUE, ""), Entry("pull", 0, FALSE, OTHER_ERROR)}

\* docker inspect <id>: the state of an existing container, or an error
DockerInspect(c, id) ==
    {Entry("inspect", id, FALSE, IF c[id].exists THEN OTHER_ERROR ELSE NO_SUCH_CONTAINER)}
    \cup (IF c[id].exists THEN {Entry("inspect", id, TRUE, c[id].status)} ELSE {})

\* docker start <id>
DockerStart(c, id) ==
    {[log |-> Entry("start", id, FALSE,
                    IF c[id].exists THEN OTHER_ERROR ELSE NO_SUCH_CONTAINER),
      c |-> c]}
    \cup (IF c[id].exists
          THEN {[log |-> Entry("start", id, TRUE, ""),
                 c |-> [c EXCEPT ![id].status = "running"]]}
          ELSE {})

\* docker stop <id>
DockerStop(c, id) ==
    IF c[id].exists
    THEN {[log |-> Entry("stop", id, TRUE, ""),
           c |-> [c EXCEPT ![id].status = "exited"]],
          [log |-> Entry("stop", id, FALSE, OTHER_ERROR), c |-> c]}
    ELSE {[log |-> Entry("stop", id, FALSE, NO_SUCH_CONTAINER), c |-> c],
          [log |-> Entry("stop", id, FALSE, OTHER_ERROR), c |-> c]}

\* docker rm <id>: a running container is not removed
DockerRm(c, id) ==
    IF c[id].exists
    THEN {[log |-> Entry("rm", id, FALSE, OTHER_ERROR), c |-> c]}
         \cup (IF c[id].status # "running"
               THEN {[log |-> Entry("rm", id, TRUE, ""),
                      c |-> [c EXCEPT ![id] = NoContainer]]}
               ELSE {})
    ELSE {[log |-> Entry("rm", id, FALSE, NO_SUCH_CONTAINER), c |-> c],
          [log |-> Entry("rm", id, FALSE, OTHER_ERROR), c |-> c]}

\* the runtime's reading of the -e arguments: NAME=VALUE is split at the
\* first "=", and a later argument replaces an earlier one of the same name
EqIdx(arg) ==
    CHOOSE i \in DOMAIN arg : arg[i] = "=" /\ \A j \in 1..(i - 1) : arg[j] # "="

ArgName(arg) == SubSeq(arg, 1, EqIdx(arg) - 1)

ArgValue(arg) == SubSeq(arg, EqIdx(arg) + 1, Len(arg))

RECURSIVE ContainerEnv(_)
ContainerEnv(args) ==
    IF args = <<>> THEN <<>>
    ELSE DictSet(ContainerEnv(SubSeq(args, 1, Len(args) - 1)),
                 ArgName(args[Len(args)]), ArgValue(args[Len(args)]))

\* a runtime that lets two containers have one name
NameInUseNever(c, name) == FALSE

NameInUse(c, name) ==
    name # <<>> /\ \E h \in Handles : c[h].exists /\ c[h].name = name

NewContainer(run_cmd, status) ==
    [exists |-> TRUE, name |-> run_cmd.name, label |-> run_cmd.label, status |-> status]

\* docker run -d --name <name> ...: a name in use is a conflict; otherwise a
\* new container that is running or has already exited, or a failure that
\* may leave the container behind in state created
DockerRun(c, n, run_cmd) ==
    {[log |-> RunEntry(run_cmd, 0, FALSE, OTHER_ERROR), c |-> c, n |-> n]}
    \cup (IF NameInUse(c, run_cmd.name)
          THEN {[log |-> RunEntry(run_cmd, 0, FALSE, NAME_CONFLICT), c |-> c, n |-> n]}
          ELSE IF n \in Handles
          THEN {[log |-> RunEntry(run_cmd, n, TRUE, ""),
                 c |-> [c EXCEPT ![n] = NewContainer(run_cmd, st)],
                 n |-> n + 1] : st \in {"running", "exited"}}
               \cup {[log |-> RunEntry(run_cmd, 0, FALSE, OTHER_ERROR),
                      c |-> [c EXCEPT ![n] = NewContainer(run_cmd, "created")],
                      n |-> n + 1]}
          ELSE {})

----------------------------------------------------------------------------
(* Docker CLI helpers *)

\* a daemon check that reports success whatever docker info says
check_docker_running_optimistic == {[ret |-> TRUE, log |-> <<e>>] : e \in DockerInfo}

check_docker_running == {[ret |-> e.ok, log |-> <<e>>] : e \in DockerInfo}

\* an image guard that reports success also when the pull has failed
ensure_base_image_exists_optimistic ==
    UNION {IF check_image.ok
           THEN {[ret |-> TRUE, log |-> <<check_image>>]}
           ELSE {[ret |-> TRUE, log |-> <<check_image, pull_result>>] :
                    pull_result \in DockerPull} :
           check_image \in DockerImageInspect}

ensure_base_image_exists ==
    UNION {IF check_image.ok
           THEN {[ret |-> TRUE, log |-> <<check_image>>]}
           ELSE {[ret |-> pull_result.ok, log |-> <<check_image, pull_result>>] :
                    pull_result \in DockerPull} :
           check_image \in DockerImageInspect}

get_container_status(c, container_id) ==
    {[success |-> e.ok, status |-> IF e.ok THEN e.out ELSE "", log |-> <<e>>] :
        e \in DockerInspect(c, container_id)}

\* a run_container that fails when the new container is not seen running
run_container_strict(c, n, project_id, environment) ==
    LET env == DictSet(environment, PROJECT_ID, Str(project_id)) IN
    UNION {IF ~im.ret
           THEN {[success |-> FALSE, container_id |-> 0, c |-> c, n |-> n,
                  log |-> im.log]}
           ELSE UNION {IF ~result.log.ok
                       THEN {[success |-> FALSE, container_id |-> 0,
                              c |-> result.c, n |-> result.n,
                              log |-> im.log \o <<result.log>>]}
                       ELSE {[success |-> status_result.success
                                            /\ status_result.status = "running",
                              container_id |-> result.log.id,
                              c |-> result.c, n |-> result.n,
                              log |-> im.log \o <<result.log>> \o status_result.log] :
                                status_result \in
                                    get_container_status(result.c, result.log.id)} :
                       result \in DockerRun(c, n, RunCmd(project_id, env))} :
           im \in ensure_base_image_exists}

run_container(c, n, project_id, environment) ==
    LET env == DictSet(environment, PROJECT_ID, Str(project_id)) IN
    UNION {IF ~im.ret
           THEN {[success |-> FALSE, container_id |-> 0, c |-> c, n |-> n,
                  log |-> im.log]}
           ELSE UNION {IF ~result.log.ok
                       THEN {[success |-> FALSE, container_id |-> 0,
                              c |-> result.c, n |-> result.n,
                              log |-> im.log \o <<result.log>>]}
                       ELSE {[success |-> TRUE, container_id |-> result.log.id,
                              c |-> result.c, n |-> result.n,
                              log |-> im.log \o <<result.log>> \o status_result.log] :
                                status_result \in
                                    get_container_status(result.c, result.log.id)} :
                       result \in DockerRun(c, n, RunCmd(project_id, env))} :
           im \in ensure_base_image_exists}

\* a stop_and_remove_container that removes also after a failed stop
stop_and_remove_container_rm_anyway(c, container_id) ==
    UNION {{[success |-> rm_result.log.ok,
             error |-> IF rm_result.log.ok THEN <<>>
                       ELSE <<"Failed to remove container: ", rm_result.log.out>>,
             c |-> rm_result.c,
             log |-> <<stop_result.log, rm_result.log>>] :
               rm_result \in DockerRm(stop_result.c, container_id)} :
           stop_result \in DockerStop(c, container_id)}

stop_and_remove_container(c, container_id) ==
    UNION {IF ~stop_result.log.ok
           THEN {[success |-> FALSE,
                  error |-> <<"Failed to stop container: ", stop_result.log.out>>,
                  c |-> stop_result.c, log |-> <<stop_result.log>>]}
           ELSE {[success |-> rm_result.log.ok,
                  error |-> IF rm_result.log.ok THEN <<>>
                            ELSE <<"Failed to remove container: ", rm_result.log.out>>,
                  c |-> rm_result.c,
                  log |-> <<stop_result.log, rm_result.log>>] :
                    rm_result \in DockerRm(stop_result.c, container_id)} :
           stop_result \in DockerStop(c, container_id)}

\* a start that reports the opposite of what docker start returned
start_container_inverted(c, container_id) ==
    {[ret |-> ~result.log.ok, c |-> result.c, log |-> <<result.log>>] :
        result \in DockerStart(c, container_id)}

start_container(c, container_id) ==
    {[ret |-> result.log.ok, c |-> result.c, log |-> <<result.log>>] :
        result \in DockerStart(c, container_id)}

\* every error counts as a missing container
ContainsAlways(error, sub) == TRUE

\* "No such container" in result["error"]
Contains(error, sub) == \E i \in DOMAIN error : error[i] = sub

----------------------------------------------------------------------------
(* Requests and responses *)

NoData == [is_dict |-> FALSE, environment |-> <<>>]

Resp(op, project_id, code, status, container_id, container_status, data, listing) ==
    [op |-> op, project_id |-> project_id, code |-> code, status |-> status,
     container_id |-> container_id, container_status |-> container_status,
     data |-> data, containers |-> listing]

NoResp == Resp("none", "", 0, "", 0, "", NoData, <<>>)

Outcome(reg, c, n, r, log) ==
    [reg |-> reg, c |-> c, n |-> n, resp |-> r, cmds |-> log]

----------------------------------------------------------------------------
(* POST /api/containers/<project_id> *)

\* a running container is started as well
needs_start_always(status_result) == TRUE

\* app.py:444, status_result["status"] != "running"
needs_start(status_result) == status_result.status # "running"

\* the container id is not stored
record_container_lost(reg, project_id, container_id) == reg

\* app.py:513, project_containers[project_id] = container_id
record_container(reg, project_id, container_id) ==
    DictSet(reg, project_id, container_id)

\* a fresh run that drops the project's key before it runs the container
fresh_run_drop_stale(reg, c, n, project_id, data, pre) ==
    LET environment0 == IF data.is_dict THEN data.environment ELSE <<>>
        environment == DictSet(environment0, PROJECT_ID, Str(project_id))
    IN UNION {IF ~run_result.success
              THEN {Outcome(DictDel(reg, project_id), run_result.c, run_result.n,
                            Resp("create", project_id, 500, "error", 0, "", data, <<>>),
                            pre \o run_result.log)}
              ELSE {Outcome(record_container(reg, project_id, run_result.container_id),
                            run_result.c, run_result.n,
                            Resp("create", project_id, 201, "success",
                                 run_result.container_id,
                                 IF status_result.success THEN status_result.status
                                 ELSE "unknown",
                                 data, <<>>),
                            pre \o run_result.log \o status_result.log) :
                        status_result \in
                            get_container_status(run_result.c, run_result.container_id)} :
              run_result \in run_container(c, n, project_id, environment)}

\* app.py:474-527, the fresh run; pre is the log of the commands run so far
fresh_run(reg, c, n, project_id, data, pre) ==
    LET environment0 == IF data.is_dict THEN data.environment ELSE <<>>
        environment == DictSet(environment0, PROJECT_ID, Str(project_id))
    IN UNION {IF ~run_result.success
              THEN {Outcome(reg, run_result.c, run_result.n,
                            Resp("create", project_id, 500, "error", 0, "", data, <<>>),
                            pre \o run_result.log)}
              ELSE {Outcome(record_container(reg, project_id, run_result.container_id),
                            run_result.c, run_result.n,
                            Resp("create", project_id, 201, "success",
                                 run_result.container_id,
                                 IF status_result.success THEN status_result.status
                                 ELSE "unknown",
                                 data, <<>>),
                            pre \o run_result.log \o status_result.log) :
                        status_result \in
                            get_container_status(run_result.c, run_result.container_id)} :
              run_result \in run_container(c, n, project_id, environment)}

\* app.py:436-472, the container recorded for the project
existing_container(reg, c, n, project_id, data, pre) ==
    LET container_id == DictGet(reg, project_id) IN
    UNION {IF status_result.success
           THEN IF needs_start(status_result)
                THEN UNION {IF started.ret
                            THEN {Outcome(reg, started.c, n,
                                          Resp("create", project_id, 200, "success",
                                               container_id,
                                               IF new_status.success THEN new_status.status
                                               ELSE "unknown",
                                               NoData, <<>>),
                                          pre \o status_result.log \o started.log
                                              \o new_status.log) :
                                    new_status \in
                                        get_container_status(started.c, container_id)}
                            ELSE fresh_run(reg, started.c, n, project_id, data,
                                           pre \o status_result.log \o started.log) :
                            started \in start_container(c, container_id)}
                ELSE {Outcome(reg, c, n,
                              Resp("create", project_id, 200, "success", container_id,
                                   status_result.status, NoData, <<>>),
                              pre \o status_result.log)}
           ELSE fresh_run(reg, c, n, project_id, data, pre \o status_result.log) :
           status_result \in get_container_status(c, container_id)}

\* a create-or-run that goes on to the image guard after a failed daemon check
create_or_run_container_unguarded(reg, c, n, project_id, data) ==
    UNION {UNION {IF ~im.ret
                  THEN {Outcome(reg, c, n,
                                Resp("create", project_id, 500, "error", 0, "",
                                     NoData, <<>>),
                                dk.log \o im.log)}
                  ELSE IF DictHas(reg, project_id)
                       THEN existing_container(reg, c, n, project_id, data,
                                               dk.log \o im.log)
                       ELSE fresh_run(reg, c, n, project_id, data,
                                      dk.log \o im.log) :
                  im \in ensure_base_image_exists} :
           dk \in check_docker_running}

create_or_run_container(reg, c, n, project_id, data) ==
    UNION {IF ~dk.ret
           THEN {Outcome(reg, c, n,
                         Resp("create", project_id, 500, "error", 0, "", NoData, <<>>),
                         dk.log)}
           ELSE UNION {IF ~im.ret
                       THEN {Outcome(reg, c, n,
                                     Resp("create", project_id, 500, "error", 0, "",
                                          NoData, <<>>),
                                     dk.log \o im.log)}
                       ELSE IF DictHas(reg, project_id)
                            THEN existing_container(reg, c, n, project_id, data,
                                                    dk.log \o im.log)
                            ELSE fresh_run(reg, c, n, project_id, data,
                                           dk.log \o im.log) :
                       im \in ensure_base_image_exists} :
           dk \in check_docker_running}

----------------------------------------------------------------------------
(* DELETE /api/containers/<project_id> *)

\* a stop that answers 200 for a project it has no record of
stop_container_lenient(reg, c, n, project_id) ==
    UNION {IF ~dk.ret
           THEN {Outcome(reg, c, n,
                         Resp("stop", project_id, 500, "error", 0, "", NoData, <<>>),
                         dk.log)}
           ELSE IF ~DictHas(reg, project_id)
           THEN {Outcome(reg, c, n,
                         Resp("stop", project_id, 200, "warning", 0, "", NoData, <<>>),
                         dk.log)}
           ELSE LET container_id == DictGet(reg, project_id) IN
                {IF result.success
                 THEN Outcome(DictDel(reg, project_id), result.c, n,
                              Resp("stop", project_id, 200, "success", 0, "", NoData, <<>>),
                              dk.log \o result.log)
                 ELSE IF Contains(result.error, NO_SUCH_CONTAINER)
                 THEN Outcome(DictDel(reg, project_id), result.c, n,
                              Resp("stop", project_id, 200, "warning", 0, "", NoData, <<>>),
                              dk.log \o result.log)
                 ELSE Outcome(reg, result.c, n,
                              Resp("stop", project_id, 500, "error", 0, "", NoData, <<>>),
                              dk.log \o result.log) :
                 result \in stop_and_remove_container(c, container_id)} :
           dk \in check_docker_running}

stop_container(reg, c, n, project_id) ==
    UNION {IF ~dk.ret
           THEN {Outcome(reg, c, n,
                         Resp("stop", project_id, 500, "error", 0, "", NoData, <<>>),
                         dk.log)}
           ELSE IF ~DictHas(reg, project_id)
           THEN {Outcome(reg, c, n,
                         Resp("stop", project_id, 404, "error", 0, "", NoData, <<>>),
                         dk.log)}
           ELSE LET container_id == DictGet(reg, project_id) IN
                {IF result.success
                 THEN Outcome(DictDel(reg, project_id), result.c, n,
                              Resp("stop", project_id, 200, "success", 0, "", NoData, <<>>),
                              dk.log \o result.log)
                 ELSE IF Contains(result.error, NO_SUCH_CONTAINER)
                 THEN Outcome(DictDel(reg, project_id), result.c, n,
                              Resp("stop", project_id, 200, "warning", 0, "", NoData, <<>>),
                              dk.log \o result.log)
                 ELSE Outcome(reg, result.c, n,
                              Resp("stop", project_id, 500, "error", 0, "", NoData, <<>>),
                              dk.log \o result.log) :
                 result \in stop_and_remove_container(c, container_id)} :
           dk \in check_docker_running}

----------------------------------------------------------------------------
(* GET /api/containers *)

\* app.py:652-669, the loop over the first i items of the registry
RECURSIVE list_loop(_, _, _)
list_loop(reg, c, i) ==
    IF i = 0 THEN {[result |-> <<>>, log |-> <<>>]}
    ELSE UNION {{[result |-> DictSet(prev.result, reg[i][1],
                                     [container_id |-> reg[i][2],
                                      status |-> IF container_status.success
                                                 THEN container_status.status
                                                 ELSE "not_found"]),
                  log |-> prev.log \o container_status.log] :
                    container_status \in get_container_status(c, reg[i][2])} :
                prev \in list_loop(reg, c, i - 1)}

\* a listing that drops the entries it reports as not_found
list_containers_prune(reg, c, n) ==
    UNION {IF ~dk.ret
           THEN {Outcome(reg, c, n,
                         Resp("list", "", 500, "error", 0, "", NoData, <<>>), dk.log)}
           ELSE {Outcome(SelectSeq(reg, LAMBDA it :
                                     DictGet(l.result, it[1]).status # "not_found"),
                         c, n,
                         Resp("list", "", 200, "success", 0, "", NoData, l.result),
                         dk.log \o l.log) :
                    l \in list_loop(reg, c, Len(reg))} :
           dk \in check_docker_running}

list_containers(reg, c, n) ==
    UNION {IF ~dk.ret
           THEN {Outcome(reg, c, n,
                         Resp("list", "", 500, "error", 0, "", NoData, <<>>), dk.log)}
           ELSE {Outcome(reg, c, n,
                         Resp("list", "", 200, "success", 0, "", NoData, l.result),
                         dk.log \o l.log) :
                    l \in list_loop(reg, c, Len(reg))} :
           dk \in check_docker_running}

----------------------------------------------------------------------------
(* GET /api/containers/<project_id> *)

\* a status request that cleans the record up as stop does
get_container_status_endpoint_cleanup(reg, c, n, project_id) ==
    UNION {IF ~dk.ret
           THEN {Outcome(reg, c, n,
                         Resp("status", project_id, 500, "error", 0, "", NoData, <<>>),
                         dk.log)}
           ELSE IF ~DictHas(reg, project_id)
           THEN {Outcome(reg, c, n,
                         Resp("status", project_id, 404, "error", 0, "", NoData, <<>>),
                         dk.log)}
           ELSE LET container_id == DictGet(reg, project_id) IN
                {IF container_status.success
                 THEN Outcome(reg, c, n,
                              Resp("status", project_id, 200, "success", container_id,
                                   container_status.status, NoData, <<>>),
                              dk.log \o container_status.log)
                 ELSE Outcome(DictDel(reg, project_id), c, n,
                              Resp("status", project_id, 404, "error", 0, "", NoData, <<>>),
                              dk.log \o container_status.log) :
                 container_status \in get_container_status(c, container_id)} :
           dk \in check_docker_running}

get_container_status_endpoint(reg, c, n, project_id) ==
    UNION {IF ~dk.ret
           THEN {Outcome(reg, c, n,
                         Resp("status", project_id, 500, "error", 0, "", NoData, <<>>),
                         dk.log)}
           ELSE IF ~DictHas(reg, project_id)
           THEN {Outcome(reg, c, n,
                         Resp("status", project_id, 404, "error", 0, "", NoData, <<>>),
                         dk.log)}
           ELSE LET container_id == DictGet(reg, project_id) IN
                {IF container_status.success
                 THEN Outcome(reg, c, n,
                              Resp("status", project_id, 200, "success", container_id,
                                   container_status.status, NoData, <<>>),
                              dk.log \o container_status.log)
                 ELSE Outcome(reg, c, n,
                              Resp("status", project_id, 404, "error", 0, "", NoData, <<>>),
                              dk.log \o container_status.log) :
                 container_status \in get_container_status(c, container_id)} :
           dk \in check_docker_running}

----------------------------------------------------------------------------
(* GET /api/status *)

get_docker_status(reg, c, n) ==
    UNION {IF ~dk.ret
           THEN {Outcome(reg, c, n,
                         Resp("docker_status", "", 500, "error", 0, "", NoData, <<>>),
                         dk.log)}
           ELSE {Outcome(reg, c, n,
                         Resp("docker_status", "", 200, "success", 0, "", NoData, <<>>),
                         dk.log \o im.log) :
                    im \in ensure_base_image_exists} :
           dk \in check_docker_running}

----------------------------------------------------------------------------
(* Request bodies *)

EnvKeys == {<<"PROJECT_ID">>, <<"FOO">>, <<"PROJECT_ID", "=", "FOO">>}
EnvValues == {<<"spoofed">>}

RECURSIVE EnvDicts(_)
EnvDicts(len) ==
    IF len = 0 THEN {<<>>}
    ELSE LET shorter == EnvDicts(len - 1) IN
         shorter \cup {Append(d, <<k, v>>) :
                          d \in {x \in shorter : Len(x) = len - 1},
                          k \in EnvKeys, v \in EnvValues}

\* the JSON bodies: an environment that is a dict, or one that is not
DataInputs ==
    {[is_dict |-> TRUE, environment |-> d] :
        d \in {x \in EnvDicts(MaxEnvLen) : Cardinality(DictKeys(x)) = Len(x)}}
    \cup {NoData}

----------------------------------------------------------------------------
(* The state machine *)

\* the worker threads of the development server (app.py:769, app.run):
\* each serves one request
Threads == {1, 2}

\* a thread that has not taken its request yet
Idle ==
    [pc |-> "idle", op |-> "none", project_id |-> "", container_id |-> 0,
     used |-> 0, pos |-> 0, result |-> <<>>, log |-> <<>>, resp |-> NoResp]

Init ==
    /\ project_containers = <<>>
    /\ containers = [h \in Handles |-> NoContainer]
    /\ next_id = 1
    /\ resp = NoResp
    /\ cmds = <<>>
    /\ stopped = {}
    /\ threads = [t \in Threads |-> Idle]

Apply(o) ==
    /\ project_containers' = o.reg
    /\ containers' = o.c
    /\ next_id' = o.n
    /\ resp' = o.resp
    /\ cmds' = o.cmds
    /\ stopped' = IF o.resp.op = "stop" /\ o.resp.code = 200
                  THEN stopped \cup {o.resp.project_id}
                  ELSE IF o.resp.op = "create" /\ o.resp.code = 201
                  THEN stopped \ {o.resp.project_id}
                  ELSE stopped
    /\ UNCHANGED threads

Post(bodies) ==
    \E project_id \in Projects, data \in bodies :
        \E o \in create_or_run_container(project_containers, containers, next_id,
                                         project_id, data) : Apply(o)

\* the bodies of the scenarios of the specification: no usable environment,
\* and {"PROJECT_ID": "spoofed", "FOO": "bar"}
ScenarioInputs ==
    {NoData,
     [is_dict |-> TRUE,
      environment |-> <<<<PROJECT_ID, <<"spoofed">>>>, <<<<"FOO">>, <<"bar">>>>>>]}

PostContainer == Post(ScenarioInputs)

\* any body of DataInputs
PostContainerAnyBody == Post(DataInputs)

DeleteContainer ==
    \E project_id \in Projects :
        \E o \in stop_container(project_containers, containers, next_id, project_id) :
            Apply(o)

GetContainers ==
    \E o \in list_containers(project_containers, containers, next_id) : Apply(o)

GetContainer ==
    \E project_id \in Projects :
        \E o \in get_container_status_endpoint(project_containers, containers, next_id,
                                               project_id) : Apply(o)

GetStatus ==
    \E o \in get_docker_status(project_containers, containers, next_id) : Apply(o)

\* the runtime between two requests: a container exits, the restart policy
\* (or an operator) starts it again, an operator removes it
RuntimeExit ==
    \E h \in Handles :
        /\ containers[h].exists /\ containers[h].status = "running"
        /\ containers' = [containers EXCEPT ![h].status = "exited"]
        /\ resp' = NoResp /\ cmds' = <<>>
        /\ UNCHANGED <<project_containers, next_id, stopped, threads>>

RuntimeRestart ==
    \E h \in Handles :
        /\ containers[h].exists /\ containers[h].status = "exited"
        /\ containers' = [containers EXCEPT ![h].status = "running"]
        /\ resp' = NoResp /\ cmds' = <<>>
        /\ UNCHANGED <<project_containers, next_id, stopped, threads>>

RuntimeRemove ==
    \E h \in Handles :
        /\ containers[h].exists
        /\ containers' = [containers EXCEPT ![h] = NoContainer]
        /\ resp' = NoResp /\ cmds' = <<>>
        /\ UNCHANGED <<project_containers, next_id, stopped, threads>>

Next ==
    \/ PostContainer
    \/ DeleteContainer
    \/ GetContainers
    \/ GetContainer
    \/ GetStatus
    \/ RuntimeExit
    \/ RuntimeRestart
    \/ RuntimeRemove

Spec == Init /\ [][Next]_vars

\* requests to create or run only, with every body of DataInputs
NextEnv == PostContainerAnyBody

SpecEnv == Init /\ [][NextEnv]_vars

----------------------------------------------------------------------------
(* Requests served by threads.  The handler of a request is the code of *)
(* the sections above, taken one access to project_containers and one   *)
(* container command at a time; the commands that touch no container    *)
(* (docker info, the image guard) go with the step that follows them.   *)
(* A thread keeps its response and its command log in its own record;   *)
(* resp and cmds describe requests served one at a time.                *)

AllIdle == \A t \in Threads : threads[t].pc = "idle"

\* the thread goes on to pc, having run the commands of log
Goto(t, pc, log) == [threads[t] EXCEPT !.pc = pc, !.log = @ \o log]

\* the thread returns the response r, having run the commands of log
Finish(t, r, log) ==
    [threads[t] EXCEPT !.pc = "done", !.log = @ \o log, !.resp = r]

\* the response of a handler that failed or found nothing
Failure(t, code) ==
    Resp(threads[t].op, IF threads[t].op = "list" THEN "" ELSE threads[t].project_id,
         code, "error", 0, "", NoData, <<>>)

\* a step of thread t that changes its own record only
Local(t, rec) ==
    /\ threads' = [threads EXCEPT ![t] = rec]
    /\ UNCHANGED <<project_containers, containers, next_id, resp, cmds, stopped>>

\* a step of thread t that runs a container command
Runtime(t, rec, c, n) ==
    /\ threads' = [threads EXCEPT ![t] = rec]
    /\ containers' = c
    /\ next_id' = n
    /\ UNCHANGED <<project_containers, resp, cmds, stopped>>

\* the thread takes a request: the handler's check_docker_running, and for
\* create_or_run_container its first image guard (app.py:422-433, 576, 642,
\* 717)
TakeRequest(t) ==
    /\ threads[t].pc = "idle"
    /\ \E op \in {"create", "stop", "status", "list"}, project_id \in Projects :
       \E dk \in check_docker_running :
       \E im \in (IF op = "create" /\ dk.ret THEN ensure_base_image_exists
                  ELSE {[ret |-> TRUE, log |-> <<>>]}) :
          LET taken == [Idle EXCEPT !.op = op,
                                    !.project_id = IF op = "list" THEN ""
                                                   ELSE project_id]
              r == Resp(op, taken.project_id, 500, "error", 0, "", NoData, <<>>)
          IN threads' = [threads EXCEPT ![t] =
                 IF dk.ret /\ im.ret
                 THEN [taken EXCEPT !.pc = op, !.log = dk.log \o im.log]
                 ELSE [taken EXCEPT !.pc = "done", !.log = dk.log \o im.log,
                                    !.resp = r]]
    /\ resp' = NoResp /\ cmds' = <<>>
    /\ UNCHANGED <<project_containers, containers, next_id, stopped>>

\* app.py:436, 582, 723: project_id in project_containers
Membership(t) ==
    /\ threads[t].pc \in {"create", "stop", "status"}
    /\ Local(t, IF DictHas(project_containers, threads[t].project_id)
                THEN Goto(t, "lookup", <<>>)
                ELSE IF threads[t].op = "create"
                THEN Goto(t, "run", <<>>)
                ELSE Finish(t, Failure(t, 404), <<>>))

\* app.py:437, 588, 729: container_id = project_containers[project_id]; a
\* key that is gone raises KeyError, which the handler answers with 500
Lookup(t) ==
    /\ threads[t].pc = "lookup"
    /\ Local(t, IF DictHas(project_containers, threads[t].project_id)
                THEN [Goto(t, IF threads[t].op = "stop" THEN "docker_stop"
                              ELSE "inspect", <<>>)
                        EXCEPT !.container_id =
                            DictGet(project_containers, threads[t].project_id)]
                ELSE Finish(t, Failure(t, 500), <<>>))

\* app.py:440-472: the status of the recorded container
CreateInspect(t) ==
    /\ threads[t].pc = "inspect" /\ threads[t].op = "create"
    /\ \E status_result \in get_container_status(containers, threads[t].container_id) :
          Local(t, IF ~status_result.success THEN Goto(t, "run", status_result.log)
                   ELSE IF needs_start(status_result)
                   THEN Goto(t, "start", status_result.log)
                   ELSE Finish(t, Resp("create", threads[t].project_id, 200, "success",
                                       threads[t].container_id, status_result.status,
                                       NoData, <<>>),
                               status_result.log))

\* app.py:446, 458-459: start_container
CreateStart(t) ==
    /\ threads[t].pc = "start"
    /\ \E started \in start_container(containers, threads[t].container_id) :
          Runtime(t, Goto(t, IF started.ret THEN "restarted" ELSE "run", started.log),
                  started.c, next_id)

\* app.py:448-456: the status after the start, and the response
CreateRestarted(t) ==
    /\ threads[t].pc = "restarted"
    /\ \E new_status \in get_container_status(containers, threads[t].container_id) :
          Local(t, Finish(t, Resp("create", threads[t].project_id, 200, "success",
                                  threads[t].container_id,
                                  IF new_status.success THEN new_status.status
                                  ELSE "unknown",
                                  NoData, <<>>),
                          new_status.log))

\* app.py:475-509 and 197-257: the body of the request, the image guard of
\* run_container and docker run
CreateRun(t) ==
    /\ threads[t].pc = "run"
    /\ LET project_id == threads[t].project_id
           environment == DictSet(<<>>, PROJECT_ID, Str(project_id))
       IN \E im \in ensure_base_image_exists :
            IF ~im.ret
            THEN Local(t, Finish(t, Failure(t, 500), im.log))
            ELSE \E result \in DockerRun(containers, next_id,
                                         RunCmd(project_id, environment)) :
                    Runtime(t,
                            IF result.log.ok
                            THEN [Goto(t, "verify", im.log \o <<result.log>>)
                                    EXCEPT !.container_id = result.log.id]
                            ELSE Finish(t, Failure(t, 500), im.log \o <<result.log>>),
                            result.c, result.n)

\* app.py:262-266: run_container looks at the new container; the result is
\* logged only
CreateVerify(t) ==
    /\ threads[t].pc = "verify"
    /\ \E status_result \in get_container_status(containers, threads[t].container_id) :
          Local(t, Goto(t, "store", status_result.log))

\* app.py:513: project_containers[project_id] = container_id
CreateStore(t) ==
    /\ threads[t].pc = "store"
    /\ project_containers' =
          record_container(project_containers, threads[t].project_id,
                           threads[t].container_id)
    /\ stopped' = stopped \ {threads[t].project_id}
    /\ threads' = [threads EXCEPT ![t] = Goto(t, "created", <<>>)]
    /\ UNCHANGED <<containers, next_id, resp, cmds>>

\* app.py:516-527: the status of the new container, and the response
CreateCreated(t) ==
    /\ threads[t].pc = "created"
    /\ \E status_result \in get_container_status(containers, threads[t].container_id) :
          Local(t, Finish(t, Resp("create", threads[t].project_id, 201, "success",
                                  threads[t].container_id,
                                  IF status_result.success THEN status_result.status
                                  ELSE "unknown",
                                  NoData, <<>>),
                          status_result.log))

\* app.py:591, 318-323, 602-615: docker stop, and the handler's reading of
\* the error when it fails
StopStop(t) ==
    /\ threads[t].pc = "docker_stop"
    /\ \E stop_result \in DockerStop(containers, threads[t].container_id) :
          Runtime(t,
                  IF stop_result.log.ok THEN Goto(t, "docker_rm", <<stop_result.log>>)
                  ELSE IF Contains(<<"Failed to stop container: ", stop_result.log.out>>,
                                   NO_SUCH_CONTAINER)
                  THEN Goto(t, "del_warning", <<stop_result.log>>)
                  ELSE Finish(t, Failure(t, 500), <<stop_result.log>>),
                  stop_result.c, next_id)

\* app.py:326-331, 602-615: docker rm
StopRm(t) ==
    /\ threads[t].pc = "docker_rm"
    /\ \E rm_result \in DockerRm(containers, threads[t].container_id) :
          Runtime(t,
                  IF rm_result.log.ok THEN Goto(t, "del", <<rm_result.log>>)
                  ELSE IF Contains(<<"Failed to remove container: ", rm_result.log.out>>,
                                   NO_SUCH_CONTAINER)
                  THEN Goto(t, "del_warning", <<rm_result.log>>)
                  ELSE Finish(t, Failure(t, 500), <<rm_result.log>>),
                  rm_result.c, next_id)

\* app.py:595, 605: del project_containers[project_id]; a key that is gone
\* raises KeyError
StopDel(t) ==
    /\ threads[t].pc \in {"del", "del_warning"}
    /\ LET project_id == threads[t].project_id IN
       IF DictHas(project_containers, project_id)
       THEN /\ project_containers' = DictDel(project_containers, project_id)
            /\ stopped' = stopped \cup {project_id}
            /\ threads' = [threads EXCEPT ![t] =
                  Finish(t, Resp("stop", project_id, 200,
                                 IF threads[t].pc = "del" THEN "success" ELSE "warning",
                                 0, "", NoData, <<>>),
                         <<>>)]
       ELSE /\ threads' = [threads EXCEPT ![t] = Finish(t, Failure(t, 500), <<>>)]
            /\ UNCHANGED <<project_containers, stopped>>
    /\ UNCHANGED <<containers, next_id, resp, cmds>>

\* app.py:731-747: the status of the recorded container
StatusInspect(t) ==
    /\ threads[t].pc = "inspect" /\ threads[t].op = "status"
    /\ \E container_status \in
            get_container_status(containers, threads[t].container_id) :
          Local(t, Finish(t, IF container_status.success
                             THEN Resp("status", threads[t].project_id, 200, "success",
                                       threads[t].container_id,
                                       container_status.status, NoData, <<>>)
                             ELSE Failure(t, 404),
                          container_status.log))

\* the next item of the iterator of project_containers.items(): it raises
\* RuntimeError when the size of the dict is not the size it had when the
\* iterator was made, and StopIteration after the last item
IterNext(t, used, pos) ==
    IF used # Len(project_containers)
    THEN Finish(t, Failure(t, 500), <<>>)
    ELSE IF pos >= Len(project_containers)
    THEN Finish(t, Resp("list", "", 200, "success", 0, "", NoData, threads[t].result),
                <<>>)
    ELSE [Goto(t, "list_inspect", <<>>)
            EXCEPT !.used = used, !.pos = pos + 1,
                   !.project_id = project_containers[pos + 1][1],
                   !.container_id = project_containers[pos + 1][2]]

\* app.py:651-652: the loop is entered: the iterator is made and gives its
\* first item
ListIter(t) ==
    /\ threads[t].pc = "list"
    /\ Local(t, IterNext(t, Len(project_containers), 0))

\* app.py:653-669: the body of the loop
ListInspect(t) ==
    /\ threads[t].pc = "list_inspect"
    /\ \E container_status \in
            get_container_status(containers, threads[t].container_id) :
          Local(t, [Goto(t, "list_next", container_status.log)
                      EXCEPT !.result =
                          DictSet(@, threads[t].project_id,
                                  [container_id |-> threads[t].container_id,
                                   status |-> IF container_status.success
                                              THEN container_status.status
                                              ELSE "not_found"])])

\* app.py:652, 671-674: the loop asks the iterator for the next item
ListNext(t) ==
    /\ threads[t].pc = "list_next"
    /\ Local(t, IterNext(t, threads[t].used, threads[t].pos))

\* requests served one at a time, before the threads take theirs
Serial == AllIdle /\ Next

ThreadStep ==
    \E t \in Threads :
        \/ TakeRequest(t)
        \/ Membership(t)
        \/ Lookup(t)
        \/ CreateInspect(t)
        \/ CreateStart(t)
        \/ CreateRestarted(t)
        \/ CreateRun(t)
        \/ CreateVerify(t)
        \/ CreateStore(t)
        \/ CreateCreated(t)
        \/ StopStop(t)
        \/ StopRm(t)
        \/ StopDel(t)
        \/ StatusInspect(t)
        \/ ListIter(t)
        \/ ListInspect(t)
        \/ ListNext(t)

NextThreads == Serial \/ ThreadStep

SpecThreads == Init /\ [][NextThreads]_vars

----------------------------------------------------------------------------
(* Reading the log of a request *)

HasCmd(log, cmd) == \E i \in DOMAIN log : log[i].cmd = cmd

CmdOk(log, cmd) == \E i \in DOMAIN log : log[i].cmd = cmd /\ log[i].ok

CmdFailed(log, cmd) == \E i \in DOMAIN log : log[i].cmd = cmd /\ ~log[i].ok

CountCmd(log, cmd) == Cardinality({i \in DOMAIN log : log[i].cmd = cmd})

FirstIdx(log, cmd) ==
    CHOOSE i \in DOMAIN log :
        log[i].cmd = cmd /\ \A j \in 1..(i - 1) : log[j].cmd # cmd

First(log, cmd) == log[FirstIdx(log, cmd)]

\* the request that made this step
IsCall(r, op, project_id) == r.op = op /\ r.project_id = project_id

KeysDistinct(d) == Cardinality(DictKeys(d)) = Len(d)

----------------------------------------------------------------------------
(* Claims *)

\* C1: for a project without a registry entry, a create-or-run whose docker
\* run succeeds returns 201 and leaves exactly one entry for the project,
\* holding the id the runtime returned for the container it has just
\* created; a status request for a project without an entry, with the
\* daemon reachable, returns 404.
C1_FreshCreate ==
    [][\A p \in Projects :
        /\ (IsCall(resp', "create", p) /\ ~DictHas(project_containers, p)
                /\ CmdOk(cmds', "run"))
            => LET h == First(cmds', "run").id IN
               /\ resp'.code = 201
               /\ resp'.container_id = h
               /\ h = next_id /\ ~containers[h].exists /\ containers'[h].exists
               /\ Cardinality({i \in DOMAIN project_containers' :
                                  project_containers'[i][1] = p}) = 1
               /\ DictGet(project_containers', p) = h
               /\ DictDel(project_containers', p) = project_containers
        /\ (IsCall(resp', "status", p) /\ ~DictHas(project_containers, p)
                /\ CmdOk(cmds', "info"))
            => resp'.code = 404
      ]_vars

\* the first container ever created has just been recorded with 201
C1_Witness ==
    /\ resp.op = "create" /\ resp.code = 201
    /\ next_id = 2 /\ resp.container_id = 1
    /\ project_containers = <<<<resp.project_id, 1>>>>

\* C2: a create-or-run for a project whose recorded container is inspected
\* as running issues no docker run, creates no container, leaves the
\* registry unchanged and returns 200 with the recorded container id.
C2_RunningReused ==
    [][\A p \in Projects :
        (/\ IsCall(resp', "create", p) /\ DictHas(project_containers, p)
         /\ HasCmd(cmds', "inspect")
         /\ First(cmds', "inspect").id = DictGet(project_containers, p)
         /\ First(cmds', "inspect").ok
         /\ First(cmds', "inspect").out = "running")
        => /\ ~HasCmd(cmds', "run")
           /\ containers' = containers /\ next_id' = next_id
           /\ project_containers' = project_containers
           /\ resp'.code = 200
           /\ resp'.container_id = DictGet(project_containers, p)
      ]_vars

\* a second create-or-run found the container of the first one running
C2_Witness ==
    /\ resp.op = "create" /\ resp.code = 200
    /\ resp.container_status = "running"
    /\ ~HasCmd(cmds, "start")
    /\ DictHas(project_containers, resp.project_id)
    /\ DictGet(project_containers, resp.project_id) = resp.container_id
    /\ containers[resp.container_id].status = "running"

\* C3: no two containers of the same project are running at the same time.
C3_OneRunningPerProject ==
    \A h1, h2 \in Handles :
        (/\ h1 # h2
         /\ containers[h1].exists /\ containers[h2].exists
         /\ containers[h1].label = containers[h2].label)
        => ~(containers[h1].status = "running" /\ containers[h2].status = "running")

\* a project got a second container after its first one had gone, and the
\* second one is running
C3_Witness ==
    /\ resp.op = "create" /\ resp.code = 201 /\ resp.container_id = 2
    /\ CmdFailed(cmds, "inspect") /\ First(cmds, "inspect").id = 1
    /\ ~containers[1].exists
    /\ containers[2].status = "running" /\ containers[2].label = resp.project_id

\* C4: when the project is recorded but the inspect of the recorded
\* container fails, create-or-run issues no start and goes on to
\* run_container with the stale key still in place: a failed run leaves
\* the registry as it was, a successful one leaves the new id as the
\* project's only entry and the stale id nowhere in the registry.
C4_StaleReplaced ==
    [][\A p \in Projects :
        (/\ IsCall(resp', "create", p) /\ DictHas(project_containers, p)
         /\ HasCmd(cmds', "inspect")
         /\ First(cmds', "inspect").id = DictGet(project_containers, p)
         /\ ~First(cmds', "inspect").ok)
        => LET stale == DictGet(project_containers, p) IN
           /\ ~HasCmd(cmds', "start")
           /\ CountCmd(cmds', "image_inspect") = 2
           /\ resp'.code \in {201, 500}
           /\ resp'.code = 201 <=> CmdOk(cmds', "run")
           /\ resp'.code = 500 => project_containers' = project_containers
           /\ resp'.code = 201 =>
                /\ KeysDistinct(project_containers')
                /\ DictGet(project_containers', p) = First(cmds', "run").id
                /\ DictGet(project_containers', p) # stale
                /\ stale \notin DictValues(project_containers')
                /\ DictDel(project_containers', p) = DictDel(project_containers, p)
      ]_vars

\* the recorded container was gone, and a new one has taken its place
C4_Witness ==
    /\ resp.op = "create" /\ resp.code = 201
    /\ CmdFailed(cmds, "inspect")
    /\ ~containers[First(cmds, "inspect").id].exists
    /\ First(cmds, "inspect").id # resp.container_id
    /\ DictGet(project_containers, resp.project_id) = resp.container_id

\* C5 as stated: once a stop of the project has returned 200, every later
\* stop or status request for it returns 404 until a create-or-run
\* succeeds again.
C5_StopThenNotFound ==
    [][\A p \in stopped :
        (resp'.op \in {"stop", "status"} /\ resp'.project_id = p)
        => resp'.code = 404
      ]_vars

\* C5, amended: a stop returns 200 only for a recorded project and removes
\* its entry; from then on, until a create-or-run of the project returns
\* 201, the project has no entry, and a stop or status request for it
\* changes nothing and returns 404 when its daemon check succeeds and 500
\* when it fails.
C5_StopThenNotFoundOrDaemonError ==
    [][\A p \in Projects :
        /\ (IsCall(resp', "stop", p) /\ resp'.code = 200)
            => /\ DictHas(project_containers, p)
               /\ ~DictHas(project_containers', p)
        /\ p \in stopped => ~DictHas(project_containers, p)
        /\ p \in stopped' => ~DictHas(project_containers', p)
        /\ (p \in stopped /\ resp'.op \in {"stop", "status"} /\ resp'.project_id = p)
            => /\ resp'.code = IF CmdOk(cmds', "info") THEN 404 ELSE 500
               /\ project_containers' = project_containers
               /\ containers' = containers
      ]_vars

\* the project has been stopped, and a second stop has answered 404
C5_Witness ==
    /\ resp.op = "stop" /\ resp.code = 404
    /\ resp.project_id \in stopped
    /\ ~DictHas(project_containers, resp.project_id)

StopAndRemoveFailed(log) == CmdFailed(log, "stop") \/ CmdFailed(log, "rm")

FailedWithNoSuchContainer(log) ==
    \E i \in DOMAIN log :
        log[i].cmd \in {"stop", "rm"} /\ ~log[i].ok /\ log[i].out = NO_SUCH_CONTAINER

\* C6: when the stop or the remove of a recorded project's container
\* fails, an error saying "No such container" deletes the entry and gives
\* 200 with status warning; any other error gives 500 and leaves the
\* registry unchanged.
C6_StopFailure ==
    [][\A p \in Projects :
        (IsCall(resp', "stop", p) /\ DictHas(project_containers, p)
            /\ StopAndRemoveFailed(cmds'))
        => IF FailedWithNoSuchContainer(cmds')
           THEN /\ project_containers' = DictDel(project_containers, p)
                /\ ~DictHas(project_containers', p)
                /\ resp'.code = 200 /\ resp'.status = "warning"
           ELSE /\ resp'.code = 500 /\ resp'.status = "error"
                /\ project_containers' = project_containers
      ]_vars

\* the container of a recorded project was gone when it was stopped
C6_Witness ==
    /\ resp.op = "stop" /\ resp.code = 200 /\ resp.status = "warning"
    /\ FailedWithNoSuchContainer(cmds)
    /\ ~DictHas(project_containers, resp.project_id)

\* C7: a list request never changes the registry; when it answers 200 it
\* reports every entry, in order, with its recorded container id, an entry
\* whose inspect failed (a stale one among them) as not_found and every
\* other entry with the status the runtime holds for its container.
C7_ListFrame ==
    [][resp'.op = "list" =>
        /\ project_containers' = project_containers
        /\ containers' = containers
        /\ resp'.code = IF CmdOk(cmds', "info") THEN 200 ELSE 500
        /\ resp'.code = 200 =>
            /\ Len(resp'.containers) = Len(project_containers)
            /\ Len(cmds') = Len(project_containers) + 1
            /\ \A i \in DOMAIN project_containers :
                LET h == project_containers[i][2]
                    reported == resp'.containers[i]
                    inspected == cmds'[i + 1]
                IN /\ reported[1] = project_containers[i][1]
                   /\ reported[2].container_id = h
                   /\ inspected.cmd = "inspect" /\ inspected.id = h
                   /\ ~containers[h].exists => ~inspected.ok
                   /\ ~inspected.ok => reported[2].status = "not_found"
                   /\ inspected.ok => reported[2].status = containers[h].status
      ]_vars

\* a listing has reported a stale entry as not_found, and the entry is
\* still there
C7_Witness ==
    /\ resp.op = "list" /\ resp.code = 200
    /\ \E i \in DOMAIN project_containers :
        /\ ~containers[project_containers[i][2]].exists
        /\ resp.containers[i][2].status = "not_found"
        /\ resp.containers[i][2].container_id = project_containers[i][2]

\* C8: a status request changes neither the registry nor the runtime and
\* issues no start, run, stop or remove; for a recorded project whose
\* container cannot be inspected it returns 404.
C8_StatusFrame ==
    [][resp'.op = "status" =>
        /\ project_containers' = project_containers
        /\ containers' = containers /\ next_id' = next_id
        /\ \A i \in DOMAIN cmds' : cmds'[i].cmd \in {"info", "inspect"}
        /\ \A p \in Projects :
            (resp'.project_id = p /\ DictHas(project_containers, p)
                /\ CmdFailed(cmds', "inspect"))
            => /\ resp'.code = 404
               /\ First(cmds', "inspect").id = DictGet(project_containers', p)
      ]_vars

\* a status request has answered 404 for a project that is still recorded
C8_Witness ==
    /\ resp.op = "status" /\ resp.code = 404
    /\ CmdFailed(cmds, "inspect")
    /\ DictHas(project_containers, resp.project_id)
    /\ ~containers[DictGet(project_containers, resp.project_id)].exists

\* C9: a create-or-run that returns a failure leaves the registry as it
\* was, a stale entry of the project included.
C9_FailureKeepsRegistry ==
    [][(resp'.op = "create" /\ resp'.code # 200 /\ resp'.code # 201) =>
        /\ resp'.code = 500
        /\ project_containers' = project_containers
        /\ (~CmdOk(cmds', "info")
            \/ (CmdFailed(cmds', "image_inspect") /\ CmdFailed(cmds', "pull"))
            \/ CmdFailed(cmds', "run"))
      ]_vars

\* the run for a project with a stale entry has failed, and the entry is
\* still there
C9_Witness ==
    /\ resp.op = "create" /\ resp.code = 500
    /\ CmdFailed(cmds, "run")
    /\ CmdFailed(cmds, "inspect")
    /\ DictHas(project_containers, resp.project_id)
    /\ DictGet(project_containers, resp.project_id) = First(cmds, "inspect").id
    /\ ~containers[First(cmds, "inspect").id].exists

\* C10: the environment a fresh run passes to the runtime maps PROJECT_ID
\* to the project id and every other key of the caller's environment to
\* the caller's value.
C10_EnvironmentPassed ==
    (resp.op = "create" /\ HasCmd(cmds, "run")) =>
        LET received == ContainerEnv(First(cmds, "run").env)
            supplied == IF resp.data.is_dict THEN resp.data.environment ELSE <<>>
        IN /\ DictHas(received, PROJECT_ID)
           /\ DictGet(received, PROJECT_ID) = Str(resp.project_id)
           /\ \A i \in DOMAIN supplied :
                supplied[i][1] # PROJECT_ID =>
                    /\ DictHas(received, supplied[i][1])
                    /\ DictGet(received, supplied[i][1]) = supplied[i][2]

\* C11: a project becomes a key of the registry only in a create-or-run
\* of that project whose docker run succeeded, with the id that run
\* returned for a container of that project as its value; the value of a
\* key changes only in the same way; a key disappears only in a stop of
\* that project; status, list and a failed create-or-run leave the
\* registry as it is.
C11_KeyLifecycle ==
    [][/\ \A p \in Projects :
            /\ ((~DictHas(project_containers, p) /\ DictHas(project_containers', p))
                \/ (DictHas(project_containers, p) /\ DictHas(project_containers', p)
                    /\ DictGet(project_containers', p) # DictGet(project_containers, p)))
                => /\ IsCall(resp', "create", p) /\ resp'.code = 201
                   /\ CmdOk(cmds', "run")
                   /\ DictGet(project_containers', p) = First(cmds', "run").id
                   /\ First(cmds', "run").name = ContainerName(p)
                   /\ containers'[DictGet(project_containers', p)].label = p
            /\ (DictHas(project_containers, p) /\ ~DictHas(project_containers', p))
                => IsCall(resp', "stop", p) /\ resp'.code = 200
       /\ (resp'.op \in {"status", "list", "docker_status", "none"}
            \/ (resp'.op = "create" /\ resp'.code # 201))
            => project_containers' = project_containers
      ]_vars

\* a key that had gone with a stop has come back with the id of a new run
C11_Witness ==
    /\ resp.op = "create" /\ resp.code = 201 /\ resp.container_id = 2
    /\ project_containers = <<<<resp.project_id, 2>>>>
    /\ ~containers[1].exists
    /\ FirstIdx(cmds, "run") < FirstIdx(cmds, "inspect")

\* C12 as stated: for a project without a registry entry, stop and status
\* return 404, leave the registry unchanged and issue no inspect, start,
\* stop or remove.
C12_AbsentIsNotFound ==
    [][\A p \in Projects :
        (~DictHas(project_containers, p) /\ resp'.op \in {"stop", "status"}
            /\ resp'.project_id = p)
        => /\ resp'.code = 404
           /\ project_containers' = project_containers
           /\ \A i \in DOMAIN cmds' :
                cmds'[i].cmd \notin {"inspect", "start", "stop", "rm"}
      ]_vars

\* C12, amended: for a project without a registry entry, stop and status
\* run docker info and nothing else, change neither registry nor runtime,
\* and return 404 when docker info succeeds and 500 when it fails.
C12_AbsentIsNotFoundOrDaemonError ==
    [][\A p \in Projects :
        (~DictHas(project_containers, p) /\ resp'.op \in {"stop", "status"}
            /\ resp'.project_id = p)
        => /\ Len(cmds') = 1 /\ cmds'[1].cmd = "info"
           /\ resp'.code = IF cmds'[1].ok THEN 404 ELSE 500
           /\ project_containers' = project_containers
           /\ containers' = containers /\ next_id' = next_id
      ]_vars

\* a status request for a project that was never recorded has answered 404
\* while another project's container is there
C12_Witness ==
    /\ resp.op = "status" /\ resp.code = 404
    /\ ~DictHas(project_containers, resp.project_id)
    /\ resp.project_id \notin stopped
    /\ project_containers # <<>>
    /\ Len(cmds) = 1 /\ cmds[1].ok

\* the recorded container of project p was inspected, found in a state
\* other than running, and then started with the given result
StartTried(reg, r, log, p, started) ==
    /\ IsCall(r, "create", p) /\ DictHas(reg, p)
    /\ HasCmd(log, "inspect")
    /\ First(log, "inspect").id = DictGet(reg, p)
    /\ First(log, "inspect").ok
    /\ First(log, "inspect").out # "running"
    /\ HasCmd(log, "start")
    /\ First(log, "start").id = DictGet(reg, p)
    /\ First(log, "start").ok = started

\* C16: when the recorded container is inspected with a status other than
\* running and docker start succeeds, create-or-run inspects it once more,
\* issues no run, leaves the registry unchanged and returns 200 with the
\* recorded id.
C16_Restarted ==
    [][\A p \in Projects :
        StartTried(project_containers, resp', cmds', p, TRUE)
        => LET h == DictGet(project_containers, p) IN
           /\ resp'.code = 200 /\ resp'.container_id = h
           /\ ~HasCmd(cmds', "run")
           /\ project_containers' = project_containers
           /\ next_id' = next_id
           /\ containers'[h].status = "running"
           /\ Len(cmds') = FirstIdx(cmds', "start") + 1
           /\ cmds'[Len(cmds')].cmd = "inspect" /\ cmds'[Len(cmds')].id = h
      ]_vars

\* an exited container has been started again by a create-or-run
C16_Witness ==
    /\ resp.op = "create" /\ resp.code = 200
    /\ CmdOk(cmds, "start")
    /\ First(cmds, "inspect").out = "exited"
    /\ resp.container_status = "running"
    /\ DictGet(project_containers, resp.project_id) = resp.container_id

\* C17: when the recorded container is inspected with a status other than
\* running and docker start fails, create-or-run goes on to run_container
\* with the old entry still in place, and the entry is overwritten with the
\* id of the new container.
C17_StartFailureReplaces ==
    [][\A p \in Projects :
        StartTried(project_containers, resp', cmds', p, FALSE)
        => /\ CountCmd(cmds', "image_inspect") = 2
           /\ DictHas(project_containers', p)
           /\ DictGet(project_containers', p) # DictGet(project_containers, p)
           /\ DictGet(project_containers', p) = resp'.container_id
      ]_vars

ImageGuardTrue(log, i) ==
    log[i].ok \/ (i < Len(log) /\ log[i + 1].cmd = "pull" /\ log[i + 1].ok)

\* the last entry of the image guard that begins at entry i
ImageGuardEnd(log, i) == IF log[i].ok THEN i ELSE i + 1

\* C19: the image guard pulls only after a failed image inspect and only
\* once; it returns true exactly when the inspect or else the pull has
\* succeeded: a create-or-run goes on after a guard that succeeded and ends
\* with 500 right after a guard whose pull failed.
C19_ImageGuard ==
    \A i \in DOMAIN cmds :
        /\ cmds[i].cmd = "pull" =>
            i > 1 /\ cmds[i - 1].cmd = "image_inspect" /\ ~cmds[i - 1].ok
        /\ cmds[i].cmd = "image_inspect" =>
            /\ ~cmds[i].ok => (i < Len(cmds) /\ cmds[i + 1].cmd = "pull")
            /\ cmds[i].ok => (i < Len(cmds) => cmds[i + 1].cmd # "pull")
            /\ resp.op = "create" =>
                IF ImageGuardTrue(cmds, i)
                THEN /\ ImageGuardEnd(cmds, i) < Len(cmds)
                     /\ cmds[ImageGuardEnd(cmds, i) + 1].cmd
                            \in {"inspect", "image_inspect", "run"}
                ELSE /\ ImageGuardEnd(cmds, i) = Len(cmds)
                     /\ resp.code = 500
                     /\ ~HasCmd(cmds, "run")

\* a container has been created after the image had to be pulled
C19_Witness ==
    /\ resp.op = "create" /\ resp.code = 201
    /\ CmdFailed(cmds, "image_inspect") /\ CmdOk(cmds, "pull")
    /\ ~CmdFailed(cmds, "pull")

\* C20: a docker run is issued only by a create-or-run whose one docker
\* info has succeeded, right after an image guard that returned true, and
\* never after a failed pull in the same request.
C20_RunGuarded ==
    \A i \in DOMAIN cmds :
        cmds[i].cmd = "run" =>
            /\ resp.op = "create"
            /\ CountCmd(cmds, "run") = 1
            /\ CountCmd(cmds, "info") = 1
            /\ cmds[1].cmd = "info" /\ cmds[1].ok
            /\ i > 2
            /\ \/ cmds[i - 1].cmd = "image_inspect" /\ cmds[i - 1].ok
               \/ cmds[i - 1].cmd = "pull" /\ cmds[i - 1].ok
            /\ ~CmdFailed(cmds, "pull")
            /\ CountCmd(cmds, "image_inspect") = 2

\* a docker run has been issued, and has failed, after both image guards
\* found the image
C20_Witness ==
    /\ resp.op = "create" /\ resp.code = 500
    /\ CmdFailed(cmds, "run")
    /\ ~HasCmd(cmds, "pull")
    /\ cmds[1].ok

\* the fresh run of a create-or-run that found the project not recorded: no
\* container was inspected or started before docker run
FreshRun(t, p) ==
    /\ threads[t].op = "create" /\ threads[t].project_id = p
    /\ HasCmd(threads[t].log, "run")
    /\ \A i \in 1..FirstIdx(threads[t].log, "run") :
            threads[t].log[i].cmd \notin {"inspect", "start"}

\* both threads have answered a create-or-run of project p with a fresh run
BothFreshRuns(p) ==
    \A t \in Threads : threads[t].pc = "done" /\ FreshRun(t, p)

RunSucceeded == {t \in Threads : CmdOk(threads[t].log, "run")}

Named(p) == {h \in Handles : containers[h].exists /\ containers[h].name = ContainerName(p)}

\* C13 as stated: when two concurrent create-or-run calls of one project
\* both find it not recorded and both issue a fresh run, exactly one run
\* succeeds, at most one container has the project's name and the registry
\* ends with the id the successful run returned.
C13_ExactlyOneRun ==
    \A p \in Projects :
        BothFreshRuns(p)
        => /\ Cardinality(RunSucceeded) = 1
           /\ Cardinality(Named(p)) <= 1
           /\ \A t \in RunSucceeded :
                 /\ DictHas(project_containers, p)
                 /\ DictGet(project_containers, p) = First(threads[t].log, "run").id

\* a run failed for a reason other than the name, or a container that
\* neither run created has the project's name
OtherFailure(p) ==
    \/ \E t \in Threads :
          /\ CmdFailed(threads[t].log, "run")
          /\ First(threads[t].log, "run").out # NAME_CONFLICT
    \/ \E h \in Named(p) :
          \A t \in Threads : First(threads[t].log, "run").id # h

\* C13, amended: at most one of the two runs succeeds, and exactly one unless
\* a run failed for a reason other than the name or the name was taken
\* beforehand; at most one container has the project's name; the registry
\* ends with the id of the run that succeeded, and without the project when
\* none did.
C13_AtMostOneRun ==
    \A p \in Projects :
        BothFreshRuns(p)
        => /\ Cardinality(RunSucceeded) <= 1
           /\ RunSucceeded = {} => OtherFailure(p)
           /\ RunSucceeded = {} => ~DictHas(project_containers, p)
           /\ Cardinality(Named(p)) <= 1
           /\ \A t \in RunSucceeded :
                 /\ threads[t].resp.code = 201
                 /\ \A u \in Threads \ {t} : threads[u].resp.code = 500
                 /\ Named(p) = {First(threads[t].log, "run").id}
                 /\ DictHas(project_containers, p)
                 /\ DictGet(project_containers, p) = First(threads[t].log, "run").id

\* two fresh runs of one project have been issued, one has succeeded and the
\* other has met the name of the first
C13_Witness ==
    \E p \in Projects :
        /\ BothFreshRuns(p)
        /\ \E t \in Threads : threads[t].resp.code = 201
        /\ \E t \in Threads : /\ CmdFailed(threads[t].log, "run")
                                /\ First(threads[t].log, "run").out = NAME_CONFLICT
        /\ DictHas(project_containers, p)

\* C14: a stop removes the entry of its project only while the entry holds
\* the container id the stop has stopped and removed, so an id that a
\* concurrent create-or-run has stored since is never deleted.
C14_StopDeletesOwnHandle ==
    [][\A t \in Threads, p \in Projects :
        (/\ threads[t].op = "stop" /\ threads[t].project_id = p
         /\ DictHas(project_containers, p)
         /\ ~DictHas(project_containers', p)
         /\ threads'[t] # threads[t])
        => DictGet(project_containers, p) = threads[t].container_id
      ]_vars

\* C15: a list or a status request that runs while another request inserts
\* or deletes an entry of the registry still answers from one state of the
\* registry: it returns 500 only when its own docker info has failed, never
\* because the registry changed under it.
C15_SnapshotReads ==
    \A t \in Threads :
        (threads[t].op \in {"list", "status"} /\ threads[t].pc = "done")
        => /\ threads[t].resp.code \in {200, 404, 500}
           /\ threads[t].resp.code = 500 => ~threads[t].log[1].ok

\* C21: stop_and_remove_container runs docker stop and then docker rm on the
\* same container; after a failed stop no rm is run and the stop's error
\* decides the answer; the stop request reports success only when both
\* commands succeeded.
C21_StopThenRemove ==
    /\ \A i \in DOMAIN cmds :
        /\ cmds[i].cmd = "rm" =>
            /\ i > 1 /\ cmds[i - 1].cmd = "stop" /\ cmds[i - 1].ok
            /\ cmds[i - 1].id = cmds[i].id
            /\ i = Len(cmds)
        /\ (cmds[i].cmd = "stop" /\ cmds[i].ok) =>
            i < Len(cmds) /\ cmds[i + 1].cmd = "rm"
        /\ (cmds[i].cmd = "stop" /\ ~cmds[i].ok) =>
            /\ i = Len(cmds)
            /\ resp.op = "stop"
            /\ resp.code = IF cmds[i].out = NO_SUCH_CONTAINER THEN 200 ELSE 500
            /\ resp.status = IF cmds[i].out = NO_SUCH_CONTAINER THEN "warning"
                             ELSE "error"
    /\ CountCmd(cmds, "stop") <= 1 /\ CountCmd(cmds, "rm") <= 1
    /\ (resp.op = "stop" /\ resp.status = "success")
        <=> (CmdOk(cmds, "stop") /\ CmdOk(cmds, "rm"))

\* a stop has failed on a container that exists: no rm was run, the answer
\* is 500 and the container is as it was
C21_Witness ==
    /\ resp.op = "stop" /\ resp.code = 500
    /\ CmdFailed(cmds, "stop") /\ ~HasCmd(cmds, "rm")
    /\ containers[First(cmds, "stop").id].exists
    /\ containers[First(cmds, "stop").id].status = "running"
    /\ DictHas(project_containers, resp.project_id)

\* C22: once docker run has returned a container id, create-or-run answers
\* 201 and stores the id, whatever the two inspects that follow report: a
\* failed inspect or a status other than running changes neither.
C22_BestEffortStatus ==
    [][\A p \in Projects :
        (IsCall(resp', "create", p) /\ CmdOk(cmds', "run"))
        => LET i == FirstIdx(cmds', "run")
               h == cmds'[i].id
           IN /\ resp'.code = 201 /\ resp'.status = "success"
              /\ resp'.container_id = h
              /\ DictHas(project_containers', p)
              /\ DictGet(project_containers', p) = h
              /\ Len(cmds') = i + 2
              /\ cmds'[i + 1].cmd = "inspect" /\ cmds'[i + 1].id = h
              /\ cmds'[i + 2].cmd = "inspect" /\ cmds'[i + 2].id = h
              /\ resp'.container_status =
                    IF cmds'[i + 2].ok THEN cmds'[i + 2].out ELSE "unknown"
      ]_vars

\* a container that was not seen running after docker run (one inspect
\* failed, the other reported exited) has been recorded with 201
C22_Witness ==
    /\ resp.op = "create" /\ resp.code = 201
    /\ CmdOk(cmds, "run")
    /\ ~cmds[Len(cmds) - 1].ok
    /\ cmds[Len(cmds)].ok /\ cmds[Len(cmds)].out = "exited"
    /\ resp.container_status = "exited"
    /\ DictGet(project_containers, resp.project_id) = resp.container_id

\* C23: a create-or-run, stop, status or list request whose docker info
\* fails answers 500 after that one command, runs no other command and
\* leaves the registry and the containers as they were, whether or not the
\* project is recorded; no request runs docker info twice.
C23_DaemonUnreachable ==
    [][/\ CountCmd(cmds', "info") <= 1
       /\ (/\ resp'.op \in {"create", "stop", "status", "list"}
           /\ CmdFailed(cmds', "info"))
          => /\ resp'.code = 500 /\ resp'.status = "error"
             /\ Len(cmds') = 1
             /\ project_containers' = project_containers
             /\ containers' = containers
             /\ next_id' = next_id
       /\ resp'.op \in {"create", "stop", "status", "list"}
          => cmds'[1].cmd = "info"
      ]_vars

\* a create-or-run for a recorded project has been refused with 500
\* because docker info failed
C23_Witness ==
    /\ resp.op = "create" /\ resp.code = 500
    /\ cmds = <<Entry("info", 0, FALSE, OTHER_ERROR)>>
    /\ DictHas(project_containers, resp.project_id)
    /\ containers[DictGet(project_containers, resp.project_id)].exists

\* C24: with requests served one at a time from an empty registry and an
\* empty runtime, every container named project-<p> that exists is the one
\* recorded for p, and so a create-or-run for a project that is not
\* recorded never fails because the name is taken.
C24_NoOrphan ==
    [][/\ \A p \in Projects, h \in Handles :
            (containers'[h].exists /\ containers'[h].name = ContainerName(p))
            => /\ DictHas(project_containers', p)
               /\ DictGet(project_containers', p) = h
       /\ \A p \in Projects :
            (IsCall(resp', "create", p) /\ ~DictHas(project_containers, p))
            => ~(/\ CmdFailed(cmds', "run")
                 /\ First(cmds', "run").out = NAME_CONFLICT)
      ]_vars

\* the containers of project q: the one recorded for it, and any that
\* carries its label
ContainersOf(q) ==
    {h \in Handles :
        \/ DictHas(project_containers, q) /\ DictGet(project_containers, q) = h
        \/ containers[h].exists /\ containers[h].label = q}

\* C25: a request for project p leaves the entry of every other project q
\* and the containers of q as they were, and runs no command, not even an
\* inspect, on a container of q; a docker run it issues carries the name of
\* p; a list request runs nothing but docker info and inspects.
C25_OtherProjectsUntouched ==
    [][/\ \A p \in Projects, q \in Projects :
            (/\ p # q
             /\ resp'.op \in {"create", "stop", "status"} /\ resp'.project_id = p)
            => /\ DictHas(project_containers', q) <=> DictHas(project_containers, q)
               /\ DictHas(project_containers, q) =>
                    DictGet(project_containers', q) = DictGet(project_containers, q)
               /\ \A h \in ContainersOf(q) : containers'[h] = containers[h]
               /\ \A i \in DOMAIN cmds' :
                    /\ cmds'[i].cmd \in {"inspect", "start", "stop", "rm", "run"}
                        => cmds'[i].id \notin ContainersOf(q)
                    /\ cmds'[i].cmd = "run" => cmds'[i].name = ContainerName(p)
       /\ resp'.op = "list" =>
            /\ project_containers' = project_containers
            /\ containers' = containers
            /\ \A i \in DOMAIN cmds' : cmds'[i].cmd \in {"info", "inspect"}
      ]_vars

\* the second of two recorded projects has been stopped and removed; the
\* first is still recorded and its container is still running
C25_Witness ==
    /\ resp.op = "stop" /\ resp.code = 200 /\ resp.status = "success"
    /\ Len(project_containers) = 1
    /\ project_containers[1][1] # resp.project_id
    /\ project_containers[1][2] # First(cmds, "stop").id
    /\ containers[project_containers[1][2]].status = "running"
    /\ ~containers[First(cmds, "stop").id].exists

====
